---------------------------- MODULE Spec2Model ----------------------------
(***************************************************************************)
(* Model of the BudgetOverview component                                   *)
(* (src/src/components/Budget/BudgetOverview.tsx).                         *)
(*                                                                         *)
(* The component holds two pieces of local state (selectedBudget,          *)
(* currentPeriodInfo), reads four external inputs (the year prop, the      *)
(* budgets and bills live queries, the user preferences, the categories    *)
(* of the budget-calculation hook) and renders derived values.  Every      *)
(* event re-renders the component; the two effects run after the render    *)
(* whose dependencies changed and before the next event is processed.      *)
(*                                                                         *)
(* JavaScript numbers are modelled as exact rationals <<n, d>> (d > 0, in  *)
(* lowest terms); floating-point rounding is not modelled.  Dates are      *)
(* modelled by their getTime() value in milliseconds.                      *)
(***************************************************************************)
EXTENDS Integers, Sequences, FiniteSets, TLC

(***************************************************************************)
(* Bounds of the model.                                                    *)
(***************************************************************************)
MaxBudgetId == 2
MaxBills == 2
MaxCategories == 2
MaxHalfDays == 2

(***************************************************************************)
(* Program constants.                                                      *)
(***************************************************************************)
MsPerDay == 86400000
ListLimit == 5

(***************************************************************************)
(* Exact rational arithmetic for JavaScript numbers.                       *)
(***************************************************************************)
Abs(x) == IF x < 0 THEN -x ELSE x

RECURSIVE GCD(_, _)
GCD(a, b) == IF b = 0 THEN a ELSE GCD(b, a % b)

Norm(n, d) ==
    LET s == IF d < 0 THEN -1 ELSE 1
        g == GCD(Abs(n), Abs(d))
    IN  <<(s * n) \div g, (s * d) \div g>>

R(n) == <<n, 1>>
Zero == R(0)
RAdd(a, b) ==
    LET l == (a[2] * b[2]) \div GCD(a[2], b[2])
    IN  Norm(a[1] * (l \div a[2]) + b[1] * (l \div b[2]), l)
RMul(a, b) ==
    LET x == Norm(a[1], b[2])
        y == Norm(b[1], a[2])
    IN  Norm(x[1] * y[1], x[2] * y[2])
RDiv(a, b) == RMul(a, Norm(b[2], b[1]))
RLess(a, b) == a[1] * b[2] < b[1] * a[2]
RMin(a, b) == IF RLess(b, a) THEN b ELSE a
\* Math.ceil of a rational, as an integer
Ceil(a) == -((-a[1]) \div a[2])

(***************************************************************************)
(* Values of the data model.                                               *)
(***************************************************************************)
Years == {2024, 2025}
BudgetIds == 1..MaxBudgetId
\* e.target.value of the select: any identifier, also one no budget carries
ChoiceIds == 1..(MaxBudgetId + 1)
Budget == [id : BudgetIds, year : Years]
NULL == [null |-> TRUE]

\* the result of useLiveQuery: undefined until the query has resolved
UNDEFINED == [loaded |-> FALSE, rows |-> <<>>]
Loaded(rows) == [loaded |-> TRUE, rows |-> rows]

Frequencies == {"monthly", "weekly", "quarterly", "yearly", "fortnightly"}
KnownFrequencies == {"monthly", "weekly", "quarterly", "yearly"}
Amounts == {36, 100}
Bill == [amount : Amounts, frequency : Frequencies]

RECURSIVE SeqsUpTo(_, _)
SeqsUpTo(S, n) ==
    IF n = 0 THEN {<<>>}
    ELSE LET shorter == SeqsUpTo(S, n - 1)
         IN  shorter \cup {Append(s, x) : s \in shorter, x \in S}

Repeat(x, n) == [i \in 1..n |-> x]

\* Results of the bills query: every short list, and one-bill lists repeated
\* up to and past the limit of the per-bill list.
BillLists ==
    SeqsUpTo(Bill, MaxBills)
        \cup {Repeat(b, n) : b \in Bill, n \in {ListLimit, ListLimit + 1}}

\* Results of the budgets query for year y: budgets of that year, distinct ids
BudgetLists(y) ==
    {s \in SeqsUpTo([id : BudgetIds, year : {y}], MaxBudgetId) :
        \A i, j \in 1..Len(s) : i # j => s[i].id # s[j].id}

ABSENT == [present |-> FALSE, value |-> 0]
Present(v) == [present |-> TRUE, value |-> v]
SpentAmounts == {50, 150}
Category ==
    [allocatedAmount : {0, 100},
     spentAmount : SpentAmounts,
     periodAllocatedAmount : {ABSENT, Present(0), Present(50)}]
CategoryLists == SeqsUpTo(Category, MaxCategories)

\* A monthly cycle configuration is opaque to the component: all it sees is
\* whether getCurrentMonthlyPeriod throws for it and, if not, the period.
HalfDay == MsPerDay \div 2
SixDays == 6 * MsPerDay
PeriodEnds == {k * HalfDay : k \in 0..MaxHalfDays} \cup {SixDays}
InvalidConfig == [valid |-> FALSE, startDate |-> 0, endDate |-> 0]
CycleConfigs ==
    {InvalidConfig} \cup
    {[valid |-> TRUE, startDate |-> 0, endDate |-> e] : e \in PeriodEnds}

\* utils/dateUtils: returns the period, or throws for an invalid config
getCurrentMonthlyPeriod(config) ==
    IF config.valid
    THEN [threw |-> FALSE, startDate |-> config.startDate,
          endDate |-> config.endDate]
    ELSE [threw |-> TRUE, startDate |-> 0, endDate |-> 0]


(***************************************************************************)
(* Bills for the current period: calculateBillsForCurrentPeriod.           *)
(***************************************************************************)
\* 30.44, the average days in a month
AverageMonthDays == Norm(3044, 100)
\* 4.33, the weeks in a month
WeeksPerMonth == Norm(433, 100)

Hundred == R(100)

\* PeriodDays without the + 1 of the inclusive day count
PeriodDaysExclusive(period) ==
    Ceil(RDiv(R(period.endDate - period.startDate), R(MsPerDay)))

\* Math.ceil((endDate.getTime() - startDate.getTime()) / (1000*60*60*24)) + 1
PeriodDays(period) ==
    Ceil(RDiv(R(period.endDate - period.startDate), R(MsPerDay))) + 1

PeriodRatio(period) == RDiv(R(PeriodDays(period)), AverageMonthDays)

\* the switch of the aggregate's success path
MonthlyAmount(bill) ==
    CASE bill.frequency = "monthly" -> R(bill.amount)
      [] bill.frequency = "weekly" -> RMul(R(bill.amount), WeeksPerMonth)
      [] bill.frequency = "quarterly" -> RDiv(R(bill.amount), R(3))
      [] bill.frequency = "yearly" -> RDiv(R(bill.amount), R(12))
      [] OTHER -> Zero

\* bills.reduce((sum, bill) => sum + monthlyAmount * periodRatio, 0)
RECURSIVE ReduceProrated(_, _, _, _)
ReduceProrated(rows, periodRatio, i, sum) ==
    IF i > Len(rows) THEN sum
    ELSE ReduceProrated(rows, periodRatio, i + 1,
                        RAdd(sum, RMul(MonthlyAmount(rows[i]), periodRatio)))

\* the switch of the aggregate's catch block: one step of its reduce
FallbackStep(sum, bill) ==
    CASE bill.frequency = "monthly" -> RAdd(sum, R(bill.amount))
      [] bill.frequency = "weekly" ->
            RAdd(sum, RMul(R(bill.amount), WeeksPerMonth))
      [] bill.frequency = "quarterly" ->
            RAdd(sum, RDiv(R(bill.amount), R(3)))
      [] bill.frequency = "yearly" ->
            RAdd(sum, RDiv(R(bill.amount), R(12)))
      [] OTHER -> sum

RECURSIVE ReduceFallback(_, _, _)
ReduceFallback(rows, i, sum) ==
    IF i > Len(rows) THEN sum
    ELSE ReduceFallback(rows, i + 1, FallbackStep(sum, rows[i]))

\* NoBills without the length test
NoBillsUndefinedOnly(b) == ~b.loaded

\* The early return of the aggregate: !bills || bills.length === 0
NoBills(b) == ~b.loaded \/ Len(b.rows) = 0

\* The try/catch of the aggregate.  value: the number returned; consulted:
\* whether getCurrentMonthlyPeriod was called; threw: whether an error left
\* the function.
BillsTryCatch(rows, config) ==
    LET period == getCurrentMonthlyPeriod(config)
    IN  IF ~period.threw
        THEN [value |-> ReduceProrated(rows, PeriodRatio(period), 1, Zero),
              consulted |-> TRUE, threw |-> FALSE]
        ELSE [value |-> ReduceFallback(rows, 1, Zero),
              consulted |-> TRUE, threw |-> FALSE]

calculateBillsForCurrentPeriod(b, config) ==
    IF NoBills(b)
    THEN [value |-> Zero, consulted |-> FALSE, threw |-> FALSE]
    ELSE BillsTryCatch(b.rows, config)

(***************************************************************************)
(* The per-bill list: bills.slice(0, 5).map(...)                           *)
(***************************************************************************)
\* ListMonthlyAmount counting four weeks to the month
ListMonthlyAmountFourWeeks(bill) ==
    CASE bill.frequency = "monthly" -> R(bill.amount)
      [] bill.frequency = "weekly" -> RMul(R(bill.amount), R(4))
      [] bill.frequency = "quarterly" -> RDiv(R(bill.amount), R(3))
      [] bill.frequency = "yearly" -> RDiv(R(bill.amount), R(12))
      [] OTHER -> R(bill.amount)

\* the switch of the per-bill list
ListMonthlyAmount(bill) ==
    CASE bill.frequency = "monthly" -> R(bill.amount)
      [] bill.frequency = "weekly" -> RMul(R(bill.amount), WeeksPerMonth)
      [] bill.frequency = "quarterly" -> RDiv(R(bill.amount), R(3))
      [] bill.frequency = "yearly" -> RDiv(R(bill.amount), R(12))
      [] OTHER -> R(bill.amount)

\* ListFallbackAmount falling back to the monthly equivalent, as the aggregate
ListFallbackMonthly(bill) ==
    CASE bill.frequency = "monthly" -> R(bill.amount)
      [] bill.frequency = "weekly" -> RMul(R(bill.amount), WeeksPerMonth)
      [] bill.frequency = "quarterly" -> RDiv(R(bill.amount), R(3))
      [] bill.frequency = "yearly" -> RDiv(R(bill.amount), R(12))
      [] OTHER -> Zero

\* the catch block of the per-bill list
ListFallbackAmount(bill) == R(bill.amount)

\* periodAmount of one row, and whether an error left the callback
BillRow(bill, config) ==
    LET period == getCurrentMonthlyPeriod(config)
    IN  IF ~period.threw
        THEN [periodAmount |->
                  RMul(ListMonthlyAmount(bill), PeriodRatio(period)),
              threw |-> FALSE]
        ELSE [periodAmount |-> ListFallbackAmount(bill), threw |-> FALSE]

Min(a, b) == IF a < b THEN a ELSE b

HIDDEN == [shown |-> FALSE, rows |-> <<>>]

\* rendered inside {selectedBudget && ...} and {bills && bills.length > 0 && ...}
BillRows(selected, b, config) ==
    IF selected # NULL /\ b.loaded /\ Len(b.rows) > 0
    THEN [shown |-> TRUE,
          rows |-> [i \in 1..Min(Len(b.rows), ListLimit) |->
                        BillRow(b.rows[i], config)]]
    ELSE HIDDEN

(***************************************************************************)
(* Budget categories progress.                                             *)
(***************************************************************************)
\* periodAllocatedAmount || allocatedAmount: || takes the right operand
\* when the left one is undefined or 0
BudgetAmount(category) ==
    IF category.periodAllocatedAmount.present
       /\ category.periodAllocatedAmount.value # 0
    THEN R(category.periodAllocatedAmount.value)
    ELSE R(category.allocatedAmount)

Percentage(category) ==
    LET budgetAmount == BudgetAmount(category)
    IN  IF RLess(Zero, budgetAmount)
        THEN RMul(RDiv(R(category.spentAmount), budgetAmount), Hundred)
        ELSE Zero

IsOverBudget(percentage) == RLess(Hundred, percentage)

\* BarWidth without the cap
BarWidthUncapped(percentage) == percentage

\* Math.min(percentage, 100)
BarWidth(percentage) == RMin(percentage, Hundred)

CategoryRow(category) ==
    [budgetAmount |-> BudgetAmount(category),
     percentage |-> Percentage(category),
     isOverBudget |-> IsOverBudget(Percentage(category)),
     width |-> BarWidth(Percentage(category))]

\* rendered inside {selectedBudget && ...} and
\* {budgetCategories && budgetCategories.length > 0 ? ... : ...}
CategoryRows(selected, categories) ==
    IF selected # NULL /\ categories.loaded /\ Len(categories.rows) > 0
    THEN [shown |-> TRUE,
          rows |-> [i \in 1..Len(categories.rows) |->
                        CategoryRow(categories.rows[i])]]
    ELSE HIDDEN

(***************************************************************************)
(* The header's period status string.                                      *)
(***************************************************************************)
MonthLengths == <<31, 28, 31, 30, 31, 30, 31, 31, 30, 31, 30, 31>>
MonthNames == <<"Jan", "Feb", "Mar", "Apr", "May", "Jun",
                "Jul", "Aug", "Sep", "Oct", "Nov", "Dec">>

RECURSIVE DayAndMonth(_, _)
DayAndMonth(dayOfYear, month) ==
    IF month = 12 \/ dayOfYear < MonthLengths[month]
    THEN <<dayOfYear + 1, MonthNames[month]>>
    ELSE DayAndMonth(dayOfYear - MonthLengths[month], month + 1)

\* date.toLocaleDateString('en-GB', {day: 'numeric', month: 'short'}) of a
\* date of 1970 in UTC: "<day> <Mon>"
FormatDate(time) == DayAndMonth(time \div MsPerDay, 1)

EmptyInfo == <<>>
FallbackInfo == <<"Current period: Standard monthly cycle">>
PeriodInfo(startStr, endStr) ==
    <<"Current period: ", startStr[1], startStr[2], " - ",
      endStr[1], endStr[2]>>

\* the try/catch of the period info effect: the string set, and whether an
\* error left the effect
PeriodInfoTryCatch(config) ==
    LET period == getCurrentMonthlyPeriod(config)
    IN  IF ~period.threw
        THEN [info |-> PeriodInfo(FormatDate(period.startDate),
                                  FormatDate(period.endDate)),
              threw |-> FALSE]
        ELSE [info |-> FallbackInfo, threw |-> FALSE]


(***************************************************************************)
(* The component's state.                                                  *)
(***************************************************************************)
VARIABLES
    year,                 \* the year prop
    budgets,              \* useLiveQuery: budgets of the year
    bills,                \* useLiveQuery: active bills
    budgetCategories,     \* useBudgetCalculation: the categories
    preferencesLoading,   \* useUserPreferences: loading
    monthlyCycleConfig,   \* getMonthlyCycleConfig()
    selectedBudget,       \* useState<Budget | null>(null)
    currentPeriodInfo,    \* useState<string>('')
    pending,              \* the effects scheduled by the last render
    view,                 \* what the last render computed
    crashed,              \* an error left a render or an effect
    lastEvent             \* the handler or effect that ran last

vars == <<year, budgets, bills, budgetCategories, preferencesLoading,
          monthlyCycleConfig, selectedBudget, currentPeriodInfo, pending,
          view, crashed, lastEvent>>

Event(kind, arg) == [kind |-> kind, arg |-> arg]

\* One render of the component: periodBills, the per-bill list and the
\* category rows.
RowThrew(rows) == \E i \in 1..Len(rows) : rows[i].threw

View(selected, b, categories, config) ==
    LET aggregate == calculateBillsForCurrentPeriod(b, config)
        list == BillRows(selected, b, config)
    IN  [periodBills |-> aggregate.value,
         consulted |-> aggregate.consulted,
         billRows |-> list,
         categoryRows |-> CategoryRows(selected, categories),
         threw |-> aggregate.threw \/ RowThrew(list.rows)]

Render ==
    /\ view' = View(selectedBudget', bills', budgetCategories',
                    monthlyCycleConfig')
    /\ crashed' = (crashed \/ view'.threw)

Init ==
    /\ year \in Years
    /\ budgets = UNDEFINED
    /\ bills = UNDEFINED
    /\ budgetCategories = UNDEFINED
    /\ preferencesLoading \in BOOLEAN
    /\ monthlyCycleConfig \in CycleConfigs
    /\ selectedBudget = NULL
    /\ currentPeriodInfo = EmptyInfo
    /\ pending = {"autoSelect", "periodInfo"}
    /\ view = View(NULL, UNDEFINED, UNDEFINED, monthlyCycleConfig)
    /\ crashed = FALSE
    /\ lastEvent = Event("mount", 0)

(***************************************************************************)
(* Events.  React runs the effects of a render before it processes the     *)
(* next update, so an event is taken only when no effect is pending.       *)
(***************************************************************************)
\* the parent passes another year; the effects' dependencies are unchanged
ChangeYear(y) ==
    /\ pending = {}
    /\ y # year
    /\ year' = y
    /\ lastEvent' = Event("changeYear", y)
    /\ UNCHANGED <<budgets, bills, budgetCategories, preferencesLoading,
                   monthlyCycleConfig, selectedBudget, currentPeriodInfo,
                   pending>>
    /\ Render

\* the budgets query delivers the budgets of the current year
BudgetsResolve(list) ==
    /\ pending = {}
    /\ list \in BudgetLists(year)
    /\ budgets' = Loaded(list)
    /\ pending' = {"autoSelect"}
    /\ lastEvent' = Event("budgets", 0)
    /\ UNCHANGED <<year, bills, budgetCategories, preferencesLoading,
                   monthlyCycleConfig, selectedBudget, currentPeriodInfo>>
    /\ Render

\* budgets.find(b => b.id === id), undefined when there is none
RECURSIVE FindFrom(_, _, _)
FindFrom(rows, id, i) ==
    IF i > Len(rows) THEN NULL
    ELSE IF rows[i].id = id THEN rows[i]
    ELSE FindFrom(rows, id, i + 1)

\* FindBudget keeping a budget selected when none has the identifier
FindBudgetOrFirst(rows, id) ==
    IF FindFrom(rows, id, 1) = NULL THEN rows[1] ELSE FindFrom(rows, id, 1)

\* budget || null
FindBudget(rows, id) == FindFrom(rows, id, 1)

\* onChange of the select, which is rendered when budgets is non-empty
SelectBudget(id) ==
    /\ pending = {}
    /\ budgets.loaded /\ Len(budgets.rows) > 0
    /\ selectedBudget' = FindBudget(budgets.rows, id)
    /\ pending' = IF selectedBudget' # selectedBudget
                  THEN {"autoSelect"} ELSE {}
    /\ lastEvent' = Event("select", id)
    /\ UNCHANGED <<year, budgets, bills, budgetCategories,
                   preferencesLoading, monthlyCycleConfig,
                   currentPeriodInfo>>
    /\ Render

\* the preferences hook reports another loading flag or cycle configuration
PrefsChange(loading, config) ==
    /\ pending = {}
    /\ <<loading, config>> # <<preferencesLoading, monthlyCycleConfig>>
    /\ preferencesLoading' = loading
    /\ monthlyCycleConfig' = config
    /\ pending' = {"periodInfo"}
    /\ lastEvent' = Event("prefs", 0)
    /\ UNCHANGED <<year, budgets, bills, budgetCategories, selectedBudget,
                   currentPeriodInfo>>
    /\ Render

RemoveAt(rows, i) ==
    [j \in 1..(Len(rows) - 1) |-> IF j < i THEN rows[j] ELSE rows[j + 1]]

\* the bills query delivers its first result
BillsResolve(list) ==
    /\ pending = {}
    /\ ~bills.loaded
    /\ bills' = Loaded(list)
    /\ lastEvent' = Event("bills", 0)
    /\ UNCHANGED <<year, budgets, budgetCategories, preferencesLoading,
                   monthlyCycleConfig, selectedBudget, currentPeriodInfo,
                   pending>>
    /\ Render

\* an active bill is added to the store: the query delivers the longer list
BillAdded(bill) ==
    /\ pending = {}
    /\ bills.loaded /\ Len(bills.rows) < MaxBills
    /\ bills' = Loaded(Append(bills.rows, bill))
    /\ lastEvent' = Event("bills", 0)
    /\ UNCHANGED <<year, budgets, budgetCategories, preferencesLoading,
                   monthlyCycleConfig, selectedBudget, currentPeriodInfo,
                   pending>>
    /\ Render

\* a bill stops being active: the query delivers the shorter list
BillRemoved(i) ==
    /\ pending = {}
    /\ bills.loaded /\ i \in 1..Len(bills.rows)
    /\ bills' = Loaded(RemoveAt(bills.rows, i))
    /\ lastEvent' = Event("bills", 0)
    /\ UNCHANGED <<year, budgets, budgetCategories, preferencesLoading,
                   monthlyCycleConfig, selectedBudget, currentPeriodInfo,
                   pending>>
    /\ Render

\* the budget-calculation hook delivers its first categories
CategoriesResolve(list) ==
    /\ pending = {}
    /\ ~budgetCategories.loaded
    /\ budgetCategories' = Loaded(list)
    /\ lastEvent' = Event("categories", 0)
    /\ UNCHANGED <<year, budgets, bills, preferencesLoading,
                   monthlyCycleConfig, selectedBudget, currentPeriodInfo,
                   pending>>
    /\ Render

\* a refresh of the budget calculation reports another spent amount
CategoryRefreshed(i, spent) ==
    /\ pending = {}
    /\ budgetCategories.loaded /\ i \in 1..Len(budgetCategories.rows)
    /\ budgetCategories' =
          Loaded([budgetCategories.rows EXCEPT ![i].spentAmount = spent])
    /\ lastEvent' = Event("categories", 0)
    /\ UNCHANGED <<year, budgets, bills, preferencesLoading,
                   monthlyCycleConfig, selectedBudget, currentPeriodInfo,
                   pending>>
    /\ Render

(***************************************************************************)
(* Effects.                                                                *)
(***************************************************************************)
\* if (budgets && budgets.length > 0 && !selectedBudget)
AutoSelectGuard(b, selected) ==
    b.loaded /\ Len(b.rows) > 0 /\ selected = NULL

\* AutoSelectTarget taking the last budget of the list
AutoSelectLast(rows) == rows[Len(rows)]

\* budgets[0]
AutoSelectTarget(rows) == rows[1]

\* useEffect(..., [budgets, selectedBudget]); setting the state renders
\* again, and the effect runs again because selectedBudget changed
AutoSelectEffect ==
    /\ "autoSelect" \in pending
    /\ IF AutoSelectGuard(budgets, selectedBudget)
       THEN /\ selectedBudget' = AutoSelectTarget(budgets.rows)
            /\ pending' = pending
       ELSE /\ selectedBudget' = selectedBudget
            /\ pending' = pending \ {"autoSelect"}
    /\ lastEvent' = Event("autoSelect", 0)
    /\ UNCHANGED <<year, budgets, bills, budgetCategories,
                   preferencesLoading, monthlyCycleConfig,
                   currentPeriodInfo>>
    /\ Render

\* PeriodInfoGuard without the loading test
PeriodInfoUnguarded(loading) == TRUE

\* if (!preferencesLoading)
PeriodInfoGuard(loading) == ~loading

\* useEffect(..., [monthlyCycleConfig, preferencesLoading])
PeriodInfoEffect ==
    /\ "periodInfo" \in pending
    /\ pending' = pending \ {"periodInfo"}
    /\ lastEvent' = Event("periodInfo", 0)
    /\ UNCHANGED <<year, budgets, bills, budgetCategories,
                   preferencesLoading, monthlyCycleConfig, selectedBudget>>
    /\ IF PeriodInfoGuard(preferencesLoading)
       THEN LET result == PeriodInfoTryCatch(monthlyCycleConfig)
            IN  /\ currentPeriodInfo' = result.info
                /\ view' = View(selectedBudget', bills', budgetCategories',
                                monthlyCycleConfig')
                /\ crashed' = (crashed \/ result.threw \/ view'.threw)
       ELSE /\ currentPeriodInfo' = currentPeriodInfo
            /\ Render

(***************************************************************************)
(* Specifications.                                                         *)
(***************************************************************************)
\* Selection and period status: the budgets, the year, the preferences and
\* the user's choices change; bills and categories have not been delivered.
Next ==
    \/ \E y \in Years : ChangeYear(y)
    \/ \E list \in UNION {BudgetLists(y) : y \in Years} : BudgetsResolve(list)
    \/ \E id \in ChoiceIds : SelectBudget(id)
    \/ \E loading \in BOOLEAN, config \in CycleConfigs :
          PrefsChange(loading, config)
    \/ AutoSelectEffect
    \/ PeriodInfoEffect

Spec == Init /\ [][Next]_vars

\* A pending effect is run: React flushes the effects of every render.
FairSpec == Spec /\ WF_vars(AutoSelectEffect) /\ WF_vars(PeriodInfoEffect)

\* A mounted component whose effects have run, with the budgets of the year
\* delivered and the first one selected, or no budget at all.
SettledInit ==
    /\ year \in Years
    /\ \E list \in {<<>>, <<[id |-> 1, year |-> year]>>} :
          /\ budgets = Loaded(list)
          /\ selectedBudget = IF list = <<>> THEN NULL ELSE list[1]
    /\ bills = UNDEFINED
    /\ budgetCategories = UNDEFINED
    /\ preferencesLoading = TRUE
    /\ monthlyCycleConfig \in CycleConfigs
    /\ currentPeriodInfo = EmptyInfo
    /\ pending = {}
    /\ view = View(selectedBudget, UNDEFINED, UNDEFINED, monthlyCycleConfig)
    /\ crashed = FALSE
    /\ lastEvent = Event("autoSelect", 0)

\* Bills: the bills query delivers, bills are added and removed.
BillsNext ==
    \/ \E list \in BillLists : BillsResolve(list)
    \/ \E bill \in Bill : BillAdded(bill)
    \/ \E i \in 1..(ListLimit + 1) : BillRemoved(i)

BillsSpec == SettledInit /\ [][BillsNext]_vars

\* Categories: the budget-calculation hook delivers and refreshes them.
CategoriesNext ==
    \/ \E list \in CategoryLists : CategoriesResolve(list)
    \/ \E i \in 1..MaxCategories, spent \in SpentAmounts :
          CategoryRefreshed(i, spent)

CategoriesSpec == SettledInit /\ [][CategoriesNext]_vars


(***************************************************************************)
(* Properties of the bills for the current period.                         *)
(***************************************************************************)
\* The monthly equivalent of the specification's table, in 1/300 units:
\* amount, amount * 4.33, amount / 3, amount / 12, and 0 for any other
\* frequency.
TableMonthlyTimes300(bill) ==
    IF bill.frequency = "monthly" THEN 300 * bill.amount
    ELSE IF bill.frequency = "weekly" THEN 1299 * bill.amount
    ELSE IF bill.frequency = "quarterly" THEN 100 * bill.amount
    ELSE IF bill.frequency = "yearly" THEN 25 * bill.amount
    ELSE 0

RECURSIVE TableSumTimes300(_)
TableSumTimes300(rows) ==
    IF rows = <<>> THEN 0
    ELSE TableMonthlyTimes300(Head(rows)) + TableSumTimes300(Tail(rows))

\* ceil((endDate - startDate) in days) + 1
InclusiveDays(config) ==
    1 + CHOOSE n \in 0..31 :
            /\ n * MsPerDay >= config.endDate - config.startDate
            /\ (n - 1) * MsPerDay < config.endDate - config.startDate

PeriodSucceeds == monthlyCycleConfig.valid
PeriodThrows == ~monthlyCycleConfig.valid
HasBills == bills.loaded /\ bills.rows # <<>>

\* C1: with bills and a period whose endDate >= startDate, the aggregate is
\* the sum over all active bills of monthlyEquivalent * periodDays / 30.44:
\* (sum of the 1/300 units) * periodDays / (300 * 30.44), 300 * 30.44 = 9132.
C1_AggregateProrated ==
    (HasBills /\ PeriodSucceeds
        /\ monthlyCycleConfig.endDate >= monthlyCycleConfig.startDate)
    => view.periodBills =
          Norm(TableSumTimes300(bills.rows) * InclusiveDays(monthlyCycleConfig),
               9132)

\* C1 witness: a weekly bill of 100 over a 7-day period gives 433 * 7 / 30.44
C1_Witness ==
    /\ bills = Loaded(<<[amount |-> 100, frequency |-> "weekly"]>>)
    /\ PeriodSucceeds
    /\ monthlyCycleConfig.endDate - monthlyCycleConfig.startDate = SixDays
    /\ view.periodBills = Norm(433 * 7 * 100, 3044)

\* C2: when getCurrentMonthlyPeriod throws, no error leaves the component,
\* the aggregate is the sum of the unscaled monthly equivalents of all
\* active bills, and every row of the per-bill list shows the bill's raw
\* amount whatever its frequency.
C2_PeriodFailureFallbacks ==
    PeriodThrows =>
        /\ ~crashed
        /\ bills.loaded =>
              view.periodBills = Norm(TableSumTimes300(bills.rows), 300)
        /\ view.billRows.shown =>
              \A i \in 1..Len(view.billRows.rows) :
                  view.billRows.rows[i].periodAmount = R(bills.rows[i].amount)

\* C2 witness: the two fallbacks differ for a weekly bill in the list
C2_Witness ==
    /\ PeriodThrows
    /\ bills = Loaded(<<[amount |-> 100, frequency |-> "weekly"],
                        [amount |-> 36, frequency |-> "yearly"]>>)
    /\ view.billRows.shown
    /\ view.periodBills = R(436)
    /\ view.billRows.rows[1].periodAmount = R(100)
    /\ view.billRows.rows[2].periodAmount = R(36)

\* C3: with the bills empty or not yet delivered the aggregate is exactly 0,
\* no error is raised and the period utility is not consulted for it,
\* whether the utility would succeed or throw.
C3_NoBillsZero ==
    (~bills.loaded \/ bills.rows = <<>>) =>
        /\ view.periodBills = Zero
        /\ ~view.consulted
        /\ ~crashed

\* C3 witness: the last bill was removed while the period utility throws
C3_Witness ==
    /\ bills.loaded /\ bills.rows = <<>>
    /\ PeriodThrows
    /\ lastEvent.kind = "bills"
    /\ view.periodBills = Zero

\* C4 (as claimed): a bill of an unrecognized frequency counts 0 at every
\* call site: the aggregate is the sum over the recognized bills on both
\* paths, and its row of the per-bill list shows 0 on the success path.
C4_UnknownFrequencyZeroEverywhere ==
    /\ (HasBills /\ PeriodSucceeds) =>
          view.periodBills =
              Norm(TableSumTimes300(bills.rows)
                       * InclusiveDays(monthlyCycleConfig), 9132)
    /\ (HasBills /\ PeriodThrows) =>
          view.periodBills = Norm(TableSumTimes300(bills.rows), 300)
    /\ (view.billRows.shown /\ PeriodSucceeds) =>
          \A i \in 1..Len(view.billRows.rows) :
              bills.rows[i].frequency \notin KnownFrequencies
                  => view.billRows.rows[i].periodAmount = Zero


(***************************************************************************)
(* Properties of the selection.                                            *)
(***************************************************************************)
HasBudgets == budgets.loaded /\ budgets.rows # <<>>
NeedsSelection == HasBudgets /\ selectedBudget = NULL
FirstSelected == HasBudgets /\ selectedBudget = budgets.rows[1]
InList(budget, rows) == \E i \in 1..Len(rows) : rows[i] = budget
HasId(rows, id) == \E i \in 1..Len(rows) : rows[i].id = id

\* C5: a non-empty budget list with no selection is eventually followed by
\* the first budget of the list being selected, and a run of the selection
\* effect with the list empty or absent leaves the selection as it was.
C5_AutoSelectFirst ==
    /\ NeedsSelection ~> FirstSelected
    /\ [][(lastEvent'.kind = "autoSelect" /\ ~HasBudgets)
              => selectedBudget' = selectedBudget]_vars

\* C5 witness: the effect selected the first budget of a two-budget list
\* whose first element is not the one of the lowest id
C5_Witness ==
    /\ lastEvent.kind = "autoSelect"
    /\ budgets.loaded /\ Len(budgets.rows) = 2
    /\ budgets.rows[1].id = 2
    /\ selectedBudget = budgets.rows[1]
    /\ "autoSelect" \in pending

\* C6: after a choice of identifier X the selection is the budget of the
\* current list whose id is X, or null when the list has none; no error.
C6_UserChoice ==
    lastEvent.kind = "select" =>
        /\ ~crashed
        /\ HasId(budgets.rows, lastEvent.arg) =>
              /\ selectedBudget # NULL
              /\ InList(selectedBudget, budgets.rows)
              /\ selectedBudget.id = lastEvent.arg
        /\ ~HasId(budgets.rows, lastEvent.arg) => selectedBudget = NULL

\* C6 witness: the user chose an identifier no budget carries while a
\* budget was selected, and the selection became null
C6_Witness ==
    /\ lastEvent.kind = "select"
    /\ HasBudgets
    /\ ~HasId(budgets.rows, lastEvent.arg)
    /\ selectedBudget = NULL
    /\ pending = {"autoSelect"}

\* C7 (as claimed): once the budgets of the displayed year are delivered and
\* the effects have run, the selection is null or a budget of that list.
C7_SelectionInCurrentList ==
    (/\ budgets.loaded
     /\ \A i \in 1..Len(budgets.rows) : budgets.rows[i].year = year
     /\ pending = {})
    => (selectedBudget = NULL \/ InList(selectedBudget, budgets.rows))

(***************************************************************************)
(* Properties of the period status string.                                 *)
(***************************************************************************)
\* 'Current period: <start> - <end>' for the dates of the model, which all
\* lie in January 1970
ExpectedPeriodInfo(config) ==
    <<"Current period: ", (config.startDate \div MsPerDay) + 1, "Jan", " - ",
      (config.endDate \div MsPerDay) + 1, "Jan">>

\* C10: a run of the period-info effect with the preferences loaded sets the
\* status to the period's dates, or to the generic string when the utility
\* throws, and no error leaves it; a run while they load leaves the string
\* unchanged, and nothing else changes it, so it is empty until then.
C10_PeriodStatus ==
    /\ []((lastEvent.kind = "periodInfo" /\ ~preferencesLoading) =>
            /\ ~crashed
            /\ PeriodSucceeds =>
                  currentPeriodInfo = ExpectedPeriodInfo(monthlyCycleConfig)
            /\ PeriodThrows => currentPeriodInfo = FallbackInfo)
    /\ [][(lastEvent'.kind = "periodInfo" /\ preferencesLoading)
              => currentPeriodInfo' = currentPeriodInfo]_vars
    /\ [][currentPeriodInfo' # currentPeriodInfo
              => (lastEvent'.kind = "periodInfo" /\ ~preferencesLoading)]_vars

\* C10 witness: the effect ran with the preferences loaded and a throwing
\* period utility
C10_Witness ==
    /\ lastEvent.kind = "periodInfo"
    /\ ~preferencesLoading
    /\ PeriodThrows
    /\ currentPeriodInfo = FallbackInfo

(***************************************************************************)
(* Properties of the category rows.                                        *)
(***************************************************************************)
\* C8 (as claimed): the amount is periodAllocatedAmount whenever present,
\* also when it is 0, and allocatedAmount otherwise; the percentage is
\* spent / amount * 100 for amount > 0 and 0 otherwise.
C8_CategoryAmountAndPercentage ==
    view.categoryRows.shown =>
        \A i \in 1..Len(view.categoryRows.rows) :
            LET category == budgetCategories.rows[i]
                row == view.categoryRows.rows[i]
                amount == IF category.periodAllocatedAmount.present
                          THEN category.periodAllocatedAmount.value
                          ELSE category.allocatedAmount
            IN  /\ row.budgetAmount = R(amount)
                /\ row.percentage =
                      IF amount > 0
                      THEN Norm(category.spentAmount * 100, amount)
                      ELSE Zero

\* C9: isOverBudget is percentage > 100, the bar width is
\* min(percentage, 100), never above 100, and 100 for every over-budget
\* category.
C9_OverBudgetAndWidth ==
    view.categoryRows.shown =>
        \A i \in 1..Len(view.categoryRows.rows) :
            LET row == view.categoryRows.rows[i]
                over == row.percentage[1] > 100 * row.percentage[2]
            IN  /\ row.isOverBudget = over
                /\ row.width = IF over THEN R(100) ELSE row.percentage
                /\ row.width[1] <= 100 * row.width[2]
                /\ row.isOverBudget => row.width = R(100)

\* C9 witness: allocated 100, spent 150: percentage 150, over budget,
\* width 100
C9_Witness ==
    /\ view.categoryRows.shown
    /\ \E i \in 1..Len(view.categoryRows.rows) :
          /\ budgetCategories.rows[i] =
                [allocatedAmount |-> 100, spentAmount |-> 150,
                 periodAllocatedAmount |-> ABSENT]
          /\ view.categoryRows.rows[i].percentage = R(150)
          /\ view.categoryRows.rows[i].isOverBudget
          /\ view.categoryRows.rows[i].width = R(100)


(***************************************************************************)
(* Consistency of the per-bill list with the aggregate.                    *)
(***************************************************************************)
RECURSIVE ListedSum(_)
ListedSum(rows) ==
    IF rows = <<>> THEN Zero
    ELSE RAdd(Head(rows).periodAmount, ListedSum(Tail(rows)))

\* what a bill adds to the aggregate: its table monthly equivalent, scaled
\* by periodDays / 30.44 when the period utility succeeds
Contribution(bill, config) ==
    IF config.valid
    THEN Norm(TableMonthlyTimes300(bill) * InclusiveDays(config), 9132)
    ELSE Norm(TableMonthlyTimes300(bill), 300)

AllFrequenciesIn(rows, S) == \A i \in 1..Len(rows) : rows[i].frequency \in S

\* C11 (as claimed): on both paths every listed amount is the bill's
\* contribution to the aggregate, and with at most 5 active bills the
\* aggregate is the sum of the listed amounts.
C11_ListMatchesAggregate ==
    view.billRows.shown =>
        /\ \A i \in 1..Len(view.billRows.rows) :
              view.billRows.rows[i].periodAmount =
                  Contribution(bills.rows[i], monthlyCycleConfig)
        /\ Len(bills.rows) <= ListLimit =>
              view.periodBills = ListedSum(view.billRows.rows)

\* C11 (amended): the listed amount is the bill's contribution on the
\* success path for a bill of one of the four frequencies, and on the
\* failure path for a monthly bill; with at most 5 active bills, all of the
\* four frequencies on the success path or all monthly on the failure path,
\* the aggregate is the sum of the listed amounts.
C11_ListMatchesAggregateAmended ==
    view.billRows.shown =>
        LET agreeing == IF PeriodSucceeds THEN KnownFrequencies
                        ELSE {"monthly"}
        IN  /\ \A i \in 1..Len(view.billRows.rows) :
                  bills.rows[i].frequency \in agreeing =>
                      view.billRows.rows[i].periodAmount =
                          Contribution(bills.rows[i], monthlyCycleConfig)
            /\ (Len(bills.rows) <= ListLimit
                    /\ AllFrequenciesIn(bills.rows, agreeing)) =>
                  view.periodBills = ListedSum(view.billRows.rows)

\* C11 witness: a weekly and a yearly bill listed over a 7-day period, the
\* aggregate being the sum of the two rows
C11_Witness ==
    /\ PeriodSucceeds
    /\ monthlyCycleConfig.endDate - monthlyCycleConfig.startDate = SixDays
    /\ bills = Loaded(<<[amount |-> 100, frequency |-> "weekly"],
                        [amount |-> 36, frequency |-> "yearly"]>>)
    /\ view.billRows.shown
    /\ view.billRows.rows[1].periodAmount = Norm(433 * 7 * 100, 3044)
    /\ view.billRows.rows[2].periodAmount = Norm(3 * 7 * 100, 3044)
    /\ view.periodBills = Norm(436 * 7 * 100, 3044)

=============================================================================
